---- MODULE Spec2Model ----
(***************************************************************************)
(* A model of the BIFX fear-index pipeline (utkuyucel/bifx):               *)
(*   core/index_calculator.py  normalisation, weighting, smoothing         *)
(*   core/data_loader.py       acquisition with the on-disk cache          *)
(*   core/feature_engine.py    discovery and isolated execution of units   *)
(*   run_pipeline.py           the four-stage orchestration                *)
(* Floating-point values are modelled as exact rationals <<n, d>> in       *)
(* lowest terms with d > 0; d = 0 encodes the IEEE specials (NaN = <<0,0>>,*)
(* +inf = <<1,0>>, -inf = <<-1,0>>).                                       *)
(***************************************************************************)
EXTENDS Integers, Sequences, FiniteSets, TLC

VARIABLES
    \* ---- core/index_calculator.py: one call of calculate_fear_index
    feature_df,        \* the feature matrix handed to calculate_fear_index
    config,            \* the IndexConfig of the call
    normalized_df,     \* result of _normalize_features
    fear_index_raw,    \* result of _apply_weights
    fear_index,        \* the returned frame (column "fear_index"), or the empty frame
    ipc,               \* position inside calculate_fear_index
    \* ---- core/data_loader.py: the cache store and runs of load_data
    cache,             \* cache key -> entry [table, mtime] (mtime -1: no file)
    now,               \* the wall clock, in ticks (TicksPerDay ticks a day)
    data_config,       \* the DataConfig: use_cache, cache_days_valid
    sources,           \* the DataSources: sources, google_trends_keywords
    data,              \* the bundle returned by the last run of load_data
    calls,             \* cache keys whose provider adapter the last run called
    attempted,         \* sources the last run reached (enabled or not)
    lpc,               \* "idle", or how the last run ended: "returned", "raised"
    cache0,            \* the cache store as the last run found it
    prev_data,         \* the bundle of the run before the last one
    prev_ok,           \* whether that run returned
    run_at,            \* the clock at the last run
    prev_at,           \* the clock at the run before it
    runs,              \* number of runs so far
    \* ---- core/feature_engine.py: one call of compute_all_features
    units,             \* the discovered feature modules, in discovery order
    fk,                \* index of the next module of the loop
    feature_series,    \* the dict of the loop: [names, series]
    features,          \* the returned feature matrix
    fpc,               \* position inside compute_all_features
    \* ---- run_pipeline.py: one run of main
    ppc,               \* position inside main
    invoked,           \* the stages called so far
    halted,            \* the stage whose check ended the run, "" if none
    how,               \* how main was left: "return" or "exception"
    exit_code,         \* the exit status of the process
    metrics,           \* what run_backtest returned
    saved,             \* whether output/bifx_fear_index.csv was written
    \* ---- core/backtest.py: one call of run_backtest
    bt_index,          \* the composite index handed to run_backtest
    bt_xu100,          \* the reference market table
    bt_config,         \* the BacktestConfig of the call
    merged_df,         \* the table of _merge_data
    roc_auc,           \* what _calculate_roc_auc returned
    exposure,          \* the exposure column of the overlay strategy
    bt_result,         \* what run_backtest returned
    bpc                \* position inside run_backtest

idxVars == <<feature_df, config, normalized_df, fear_index_raw, fear_index, ipc>>
ldVars == <<cache, now, data_config, sources, data, calls, attempted, lpc,
            cache0, prev_data, prev_ok, run_at, prev_at, runs>>
feVars == <<units, fk, feature_series, features, fpc>>
ppVars == <<ppc, invoked, halted, how, exit_code, metrics, saved>>
btVars == <<bt_index, bt_xu100, bt_config, merged_df, roc_auc, exposure, bt_result, bpc>>
vars == <<idxVars, ldVars, feVars, ppVars, btVars>>

\* What the steps of one component leave alone.
idxFrame == UNCHANGED <<ldVars, feVars, ppVars, btVars>>
ldFrame == UNCHANGED <<idxVars, feVars, ppVars, btVars>>
feFrame == UNCHANGED <<idxVars, ldVars, ppVars, btVars>>
btFrame == UNCHANGED <<idxVars, ldVars, feVars, ppVars>>

(***************************************************************************)
(* Exact rational arithmetic standing for float arithmetic.                *)
(***************************************************************************)
Abs(x) == IF x < 0 THEN -x ELSE x

RECURSIVE GCD(_, _)
GCD(a, b) == IF b = 0 THEN a ELSE GCD(b, a % b)

LCM(a, b) == (a \div GCD(a, b)) * b

NaN == <<0, 0>>
PosInf == <<1, 0>>
NegInf == <<-1, 0>>

\* The rational n/d in lowest terms, d /= 0.
Rat(n, d) ==
    LET g == GCD(Abs(n), Abs(d))
        s == IF d < 0 THEN -1 ELSE 1
    IN  <<s * (n \div g), s * (d \div g)>>

Int2R(k) == <<k, 1>>
Zero == <<0, 1>>

IsNaN(x) == x = NaN
IsFinite(x) == x[2] # 0
notna(x) == ~IsNaN(x)

RAdd(x, y) ==
    IF IsNaN(x) \/ IsNaN(y) THEN NaN
    ELSE IF ~IsFinite(x) THEN (IF ~IsFinite(y) /\ y # x THEN NaN ELSE x)
    ELSE IF ~IsFinite(y) THEN y
    ELSE LET l == LCM(x[2], y[2])
         IN  Rat(x[1] * (l \div x[2]) + y[1] * (l \div y[2]), l)

RNeg(x) == <<-x[1], x[2]>>
RSub(x, y) == RAdd(x, RNeg(y))

Sign(k) == IF k > 0 THEN 1 ELSE IF k < 0 THEN -1 ELSE 0

RMul(x, y) ==
    IF IsNaN(x) \/ IsNaN(y) THEN NaN
    ELSE IF ~IsFinite(x) \/ ~IsFinite(y)
         THEN (IF x[1] = 0 \/ y[1] = 0 THEN NaN ELSE <<Sign(x[1]) * Sign(y[1]), 0>>)
    ELSE LET g1 == GCD(Abs(x[1]), y[2])
             g2 == GCD(Abs(y[1]), x[2])
         IN  <<(x[1] \div g1) * (y[1] \div g2), (x[2] \div g2) * (y[2] \div g1)>>

\* Float division: 0/0 = NaN, x/0 = +-inf, never an exception (numpy semantics).
RDiv(x, y) ==
    IF IsNaN(x) \/ IsNaN(y) THEN NaN
    ELSE IF ~IsFinite(y) THEN (IF ~IsFinite(x) THEN NaN ELSE Zero)
    ELSE IF ~IsFinite(x) THEN (IF y[1] < 0 THEN RNeg(x) ELSE x)
    ELSE IF y[1] = 0 THEN <<Sign(x[1]), 0>>
    ELSE RMul(x, Rat(y[2], y[1]))

\* Comparisons are false when either side is NaN, as for floats.
RLt(x, y) ==
    /\ notna(x) /\ notna(y)
    /\ IF ~IsFinite(x) THEN x = NegInf /\ y # NegInf
       ELSE IF ~IsFinite(y) THEN y = PosInf
       ELSE LET l == LCM(x[2], y[2])
            IN  x[1] * (l \div x[2]) < y[1] * (l \div y[2])

REq(x, y) == notna(x) /\ notna(y) /\ x = y
RLe(x, y) == RLt(x, y) \/ REq(x, y)

(***************************************************************************)
(* pandas values.  A Series is a sequence of rationals over the dates      *)
(* 1..Len; a DataFrame is a record [n, columns, col]: n dates, the column  *)
(* names in order, and one Series per column.                              *)
(***************************************************************************)
Range(s) == {s[i] : i \in DOMAIN s}

\* pd.DataFrame(): no rows and no columns.
EmptyFrame == [n |-> 0, columns |-> <<>>, col |-> <<>>]

\* DataFrame.empty: any axis of length 0.
empty(df) == df.n = 0 \/ Len(df.columns) = 0

\* pd.Series(value, index=...)
ConstSeries(n, value) == [i \in 1..n |-> value]

dropna(series) == SelectSeq(series, notna)

RECURSIVE SumSeq(_)
SumSeq(s) == IF s = <<>> THEN Zero ELSE RAdd(s[1], SumSeq(Tail(s)))

\* Ascending insertion of x into the sorted sequence s.
RECURSIVE Insert(_, _)
Insert(x, s) ==
    IF s = <<>> THEN <<x>>
    ELSE IF RLe(x, s[1]) THEN <<x>> \o s
    ELSE <<s[1]>> \o Insert(x, Tail(s))

RECURSIVE SortAsc(_)
SortAsc(s) == IF s = <<>> THEN <<>> ELSE Insert(s[1], SortAsc(Tail(s)))

\* Series.quantile(qn/qd) of a series without NaN, linear interpolation:
\* position (n-1)*q, value v[lo] + frac * (v[lo+1] - v[lo]); NaN when empty.
quantile(clean, qn, qd) ==
    IF clean = <<>> THEN NaN
    ELSE LET v    == SortAsc(clean)
             pos  == qn * (Len(v) - 1)
             lo   == pos \div qd
             frac == Rat(pos % qd, qd)
         IN  IF pos % qd = 0 THEN v[lo + 1]
             ELSE RAdd(v[lo + 1], RMul(frac, RSub(v[lo + 2], v[lo + 1])))

\* Series.var() as pandas computes it: NaN skipped, ddof = 1, NaN below 2 values.
\* Series.std() is its square root, so std() == 0 exactly when var() == 0.
var(series) ==
    LET c == dropna(series)
        n == Len(c)
    IN  IF n < 2 THEN NaN
        ELSE LET mean == RDiv(SumSeq(c), Int2R(n))
                 sq   == [i \in 1..n |-> RMul(RSub(c[i], mean), RSub(c[i], mean))]
             IN  RDiv(SumSeq(sq), Int2R(n - 1))

\* Series.clip(lower, upper): NaN is kept; pandas orders the two bounds first.
clip1(x, lower, upper) ==
    LET lo == IF RLe(lower, upper) THEN lower ELSE upper
        hi == IF RLe(lower, upper) THEN upper ELSE lower
    IN  IF IsNaN(x) THEN NaN
        ELSE IF RLt(x, lo) THEN lo
        ELSE IF RLt(hi, x) THEN hi
        ELSE x

clip(series, lower, upper) == [i \in DOMAIN series |-> clip1(series[i], lower, upper)]

(***************************************************************************)
(* core/index_calculator.py                                                *)
(***************************************************************************)
\* Line 15: the minimum number of valid observations.
MinValid == 10
\* Lines 16 and 23: the fill value of a degenerate column.
Fifty == <<50, 1>>

\* _normalize_zscore_minmax (lines 11-30)
normalize_zscore_minmax(series, min_val, max_val) ==
    LET series_clean == dropna(series)
        p01 == quantile(series_clean, 1, 100)
        p99 == quantile(series_clean, 99, 100)
    IN  IF Len(series_clean) < MinValid THEN ConstSeries(Len(series), Fifty)
        ELSE IF REq(p99, p01) THEN ConstSeries(Len(series), Fifty)
        ELSE LET normalized == [i \in DOMAIN series |->
                                   RDiv(RSub(series[i], p01), RSub(p99, p01))]
                 scaled == [i \in DOMAIN series |->
                               RAdd(RMul(normalized[i], RSub(max_val, min_val)), min_val)]
             IN  clip(scaled, min_val, max_val)

\* A variant of the skip test that forgets the zero-variance check.
SkipColumnOnlyAllNaN(series) == \A i \in DOMAIN series : IsNaN(series[i])

\* Line 39: the skip test of _normalize_features.
SkipColumn(series) ==
    REq(var(series), Zero) \/ \A i \in DOMAIN series : IsNaN(series[i])

\* _normalize_features (lines 33-47): the kept columns, in the matrix's order.
normalize_features(df, cfg) ==
    LET kept == SelectSeq(df.columns, LAMBDA c : ~SkipColumn(df.col[c]))
    IN  [n |-> df.n,
         columns |-> kept,
         col |-> [c \in Range(kept) |->
                     normalize_zscore_minmax(df.col[c], cfg.min_value, cfg.max_value)]]

\* weights.get(col, 0.0)
WeightOf(weights, c) == IF c \in DOMAIN weights THEN weights[c] ELSE Zero

\* The loop of _apply_weights (lines 54-64) over the first k columns:
\* the pair (weighted_sum, weights_used).
RECURSIVE WeightLoop(_, _, _)
WeightLoop(df, weights, k) ==
    IF k = 0 THEN [weighted_sum |-> ConstSeries(df.n, Zero),
                   weights_used |-> ConstSeries(df.n, Zero)]
    ELSE LET prev   == WeightLoop(df, weights, k - 1)
             c      == df.columns[k]
             weight == WeightOf(weights, c)
         IN  IF RLt(Zero, weight)
             THEN [weighted_sum |-> [i \in 1..df.n |->
                        IF notna(df.col[c][i])
                        THEN RAdd(prev.weighted_sum[i], RMul(df.col[c][i], weight))
                        ELSE prev.weighted_sum[i]],
                   weights_used |-> [i \in 1..df.n |->
                        IF notna(df.col[c][i])
                        THEN RAdd(prev.weights_used[i], weight)
                        ELSE prev.weights_used[i]]]
             ELSE prev

\* Line 72: result.replace([inf, -inf], nan)
ReplaceInf(x) == IF IsFinite(x) THEN x ELSE NaN

\* The fixed-total variant: the weights are taken to sum to 1.0 on every date.
DivideByTotalWeight(acc, weights, i) == RDiv(acc.weighted_sum[i], Int2R(1))

\* A variant that reports 0 for a date on which no weight was used.
DivideOrZero(acc, weights, i) ==
    IF acc.weights_used[i] = Zero THEN Zero
    ELSE RDiv(acc.weighted_sum[i], acc.weights_used[i])

\* Line 69: weighted_sum / weights_used
DivideByWeights(acc, weights, i) == RDiv(acc.weighted_sum[i], acc.weights_used[i])

\* A variant that takes the first column as the composite.
apply_weights_first_column(df, weights) ==
    [i \in 1..df.n |-> IF df.columns = <<>> THEN NaN ELSE df.col[df.columns[1]][i]]

\* _apply_weights (lines 50-74)
apply_weights(df, weights) ==
    LET acc == WeightLoop(df, weights, Len(df.columns))
    IN  [i \in 1..df.n |-> ReplaceInf(DivideByWeights(acc, weights, i))]

\* Series.ewm(span, adjust=False).mean() as pandas computes it (ignore_na=False,
\* min_periods=0): the running mean `weighted` and the weight `old_wt` of the past.
RECURSIVE EwmLoop(_, _, _, _, _)
EwmLoop(vals, i, weighted, old_wt, alpha) ==
    IF i > Len(vals) THEN <<>>
    ELSE LET cur    == vals[i]
             is_obs == notna(cur)
             decay  == RMul(old_wt, RSub(Int2R(1), alpha))
             w2     == IF IsNaN(weighted) THEN cur
                       ELSE IF ~is_obs THEN weighted
                       ELSE IF weighted = cur THEN weighted
                       ELSE RDiv(RAdd(RMul(decay, weighted), RMul(alpha, cur)),
                                 RAdd(decay, alpha))
             wt2    == IF IsNaN(weighted) THEN old_wt
                       ELSE IF is_obs THEN Int2R(1) ELSE decay
         IN  <<w2>> \o EwmLoop(vals, i + 1, w2, wt2, alpha)

\* _apply_ema_smoothing (lines 77-79)
apply_ema_smoothing(series, span) ==
    IF series = <<>> THEN <<>>
    ELSE <<series[1]>> \o EwmLoop(series, 2, series[1], Int2R(1), Rat(2, span + 1))

\* A variant without the final clipping.
NoFinalClip(series, cfg) == series

\* Line 106: the final clipping of calculate_fear_index.
FinalClip(series, cfg) == clip(series, cfg.min_value, cfg.max_value)

\* A variant that goes on with a normalized matrix without columns.
NothingNormalizedIgnored(df) == FALSE

\* Line 95: normalized_df.empty
NothingNormalized(df) == empty(df)

\* The frame returned at line 109.
IndexFrame(series) ==
    [n |-> Len(series), columns |-> <<"fear_index">>,
     col |-> [c \in {"fear_index"} |-> series]]

(***************************************************************************)
(* The components at rest: the state of a component in a specification     *)
(* that exercises another one.                                             *)
(***************************************************************************)
IdleLoader ==
    /\ cache = <<>>
    /\ now = 0
    /\ data_config = [use_cache |-> TRUE, cache_days_valid |-> 1]
    /\ sources = [sources |-> <<>>, google_trends_keywords |-> <<>>]
    /\ data = <<>>
    /\ calls = {}
    /\ attempted = {}
    /\ lpc = "idle"
    /\ cache0 = <<>>
    /\ prev_data = <<>>
    /\ prev_ok = FALSE
    /\ run_at = 0
    /\ prev_at = 0
    /\ runs = 0

NoSeries == [names |-> <<>>, series |-> <<>>]

IdleFeatures ==
    /\ units = <<>>
    /\ fk = 1
    /\ feature_series = NoSeries
    /\ features = EmptyFrame
    /\ fpc = "start"

NoMetrics == [kind |-> "none", rows |-> 0, crash_days |-> 0]

IdlePipeline ==
    /\ ppc = "start"
    /\ invoked = {}
    /\ halted = ""
    /\ how = ""
    /\ exit_code = -1
    /\ metrics = NoMetrics
    /\ saved = FALSE

\* BacktestConfig (src/config.py lines 173-175): -0.02, 70.0, 30.0
crash_threshold == Rat(-2, 100)
DefaultBacktestConfig ==
    [crash_threshold |-> crash_threshold,
     high_fear_threshold |-> <<70, 1>>, low_fear_threshold |-> <<30, 1>>]

NoMerge == [raised |-> FALSE, rows |-> {}, next_day_return |-> <<>>]
NoScore == [raised |-> FALSE, computed |-> FALSE, value |-> <<0, 1>>]

IdleBacktest ==
    /\ bt_index = [n |-> 0, columns |-> <<>>, col |-> <<>>]
    /\ bt_xu100 = [has_close |-> FALSE, close |-> <<>>]
    /\ bt_config = DefaultBacktestConfig
    /\ merged_df = NoMerge
    /\ roc_auc = NoScore
    /\ exposure = <<>>
    /\ bt_result = NoMetrics
    /\ bpc = "start"

(***************************************************************************)
(* Inputs of calculate_fear_index.                                         *)
(***************************************************************************)
\* Number of dates of a non-empty feature matrix (above MinValid, so that a
\* column can reach the percentile scaling).
NRows == 11
\* A column starts with 0..MaxLead missing cells (the warm-up of a rolling
\* window), or has a single value, or none.
MaxLead == 2
\* The date of the interior missing cell of "holes" and of the outlier of
\* "spike" and "dip".
GapRow == 5
SpikeRow == 7

\* Shapes of a feature series: constant; three levels; three levels with one
\* interior missing cell; flat with one high outlier; flat with one low outlier.
Patterns == {"const", "levels", "holes", "spike", "dip"}
Leads == (0..MaxLead) \cup {NRows - 1, NRows}

PatternValue(pattern, i) ==
    CASE pattern = "const"  -> Int2R(7)
      [] pattern = "levels" -> Int2R(i % 3)
      [] pattern = "holes"  -> IF i = GapRow THEN NaN ELSE Int2R(i % 3)
      [] pattern = "spike"  -> IF i = SpikeRow THEN Int2R(40) ELSE Int2R(0)
      [] pattern = "dip"    -> IF i = SpikeRow THEN Int2R(0) ELSE Int2R(5)

ColumnOf(shape) ==
    [i \in 1..NRows |->
        IF i <= shape.lead THEN NaN ELSE PatternValue(shape.pattern, i)]

Shapes == [pattern : Patterns, lead : Leads]

\* Feature units of src/features; example_double_price has no default weight.
FeatureNames == {"usdtry_shock", "vix_level", "example_double_price"}

ColumnOrders ==
    {<<a>> : a \in FeatureNames} \cup
    {cs \in FeatureNames \X FeatureNames : cs[1] # cs[2]}

Matrices ==
    {EmptyFrame} \cup
    UNION {{[n |-> NRows, columns |-> cs, col |-> [c \in Range(cs) |-> ColumnOf(sh[c])]]
               : sh \in [Range(cs) -> Shapes]} : cs \in ColumnOrders}

\* IndexConfig.default_weights (src/config.py lines 153-160), in hundredths.
DefaultWeights ==
    [realized_vol |-> Rat(25, 100), usdtry_shock |-> Rat(20, 100),
     cds_spike |-> Rat(20, 100), sentiment_trends |-> Rat(15, 100),
     vix_level |-> Rat(10, 100), correlation_breakdown |-> Rat(10, 100)]

\* A two-feature mapping 0.6 / 0.4 that sums to 1.0.
SixFourWeights == [usdtry_shock |-> Rat(6, 10), vix_level |-> Rat(4, 10)]

WeightChoices == {DefaultWeights, SixFourWeights}
RangeChoices == {<<Int2R(0), Int2R(100)>>, <<Int2R(0), Int2R(10)>>}
SpanChoices == {3, 5}

Configs ==
    {[min_value |-> r[1], max_value |-> r[2], ema_span |-> sp, default_weights |-> w]
        : r \in RangeChoices, sp \in SpanChoices, w \in WeightChoices}

(***************************************************************************)
(* calculate_fear_index (lines 82-117), one step per stage.                *)
(***************************************************************************)
InitIndex ==
    /\ feature_df \in Matrices
    /\ config \in Configs
    /\ normalized_df = EmptyFrame
    /\ fear_index_raw = <<>>
    /\ fear_index = EmptyFrame
    /\ ipc = "start"
    /\ IdleLoader
    /\ IdleFeatures
    /\ IdlePipeline
    /\ IdleBacktest

\* Lines 86-88: an empty matrix ends the call with pd.DataFrame().
RejectEmpty ==
    /\ ipc = "start"
    /\ empty(feature_df)
    /\ fear_index' = EmptyFrame
    /\ ipc' = "failed"
    /\ UNCHANGED <<feature_df, config, normalized_df, fear_index_raw>>
    /\ idxFrame

\* Line 93, and lines 95-97 when every column was skipped.
Normalize ==
    /\ ipc = "start"
    /\ ~empty(feature_df)
    /\ normalized_df' = normalize_features(feature_df, config)
    /\ IF NothingNormalized(normalized_df')
       THEN fear_index' = EmptyFrame /\ ipc' = "failed"
       ELSE fear_index' = fear_index /\ ipc' = "normalized"
    /\ UNCHANGED <<feature_df, config, fear_index_raw>>
    /\ idxFrame

\* Line 100
Weigh ==
    /\ ipc = "normalized"
    /\ fear_index_raw' = apply_weights(normalized_df, config.default_weights)
    /\ ipc' = "weighted"
    /\ UNCHANGED <<feature_df, config, normalized_df, fear_index>>
    /\ idxFrame

\* Lines 103-117: smoothing, final clipping, the returned frame.
SmoothAndClip ==
    /\ ipc = "weighted"
    /\ fear_index' = IndexFrame(FinalClip(
                        apply_ema_smoothing(fear_index_raw, config.ema_span), config))
    /\ ipc' = "done"
    /\ UNCHANGED <<feature_df, config, normalized_df, fear_index_raw>>
    /\ idxFrame

NextIndex == RejectEmpty \/ Normalize \/ Weigh \/ SmoothAndClip

SpecIndex == InitIndex /\ [][NextIndex]_vars

IdleIndex ==
    /\ feature_df = EmptyFrame
    /\ config = [min_value |-> Int2R(0), max_value |-> Int2R(100), ema_span |-> 5,
                 default_weights |-> DefaultWeights]
    /\ normalized_df = EmptyFrame
    /\ fear_index_raw = <<>>
    /\ fear_index = EmptyFrame
    /\ ipc = "start"

(***************************************************************************)
(* Properties of the index calculator, checked under SpecIndex.            *)
(***************************************************************************)
InRange(x, cfg) == RLe(cfg.min_value, x) /\ RLe(x, cfg.max_value)
ValidCount(series) == Cardinality({i \in DOMAIN series : notna(series[i])})
Returned == ipc = "done"
Normalized == ipc \in {"normalized", "weighted", "done"}
Weighted == ipc \in {"weighted", "done"}

\* C1: every non-missing value of the composite index returned by
\* calculate_fear_index lies in [min_value, max_value].
C1_IndexInRange ==
    Returned =>
        \A i \in 1..fear_index.n :
            notna(fear_index.col["fear_index"][i]) =>
                InRange(fear_index.col["fear_index"][i], config)

\* C1 witness: a returned index with a value, in a run whose raw composite left
\* the target range (the 50.0 fill against the range [0, 10]).
C1_Witness ==
    /\ Returned
    /\ \E i \in 1..fear_index.n :
          /\ notna(fear_index.col["fear_index"][i])
          /\ notna(fear_index_raw[i]) /\ ~InRange(fear_index_raw[i], config)

\* The features with a value on date i.
PresentOn(df, i) == {c \in Range(df.columns) : notna(df.col[c][i])}

RECURSIVE SumOver(_, _, _, _)
\* Sum over the features of P of term(c), term being "vw" (value times weight
\* on date i) or "w" (weight).
SumOver(P, i, term, cfg) ==
    IF P = {} THEN Zero
    ELSE LET c == CHOOSE x \in P : TRUE
             w == WeightOf(cfg.default_weights, c)
             t == IF term = "w" THEN w ELSE RMul(normalized_df.col[c][i], w)
         IN  RAdd(t, SumOver(P \ {c}, i, term, cfg))

\* C2: on every date the raw composite times the weights of the features
\* present equals the sum of value*weight over them (whenever that weight is
\* positive); with 0.6/0.4 and only the first feature present the raw value
\* is that feature's normalized value; with all features present and weights
\* summing to 1.0 it is the plain weighted sum.
C2_WeightedAverage ==
    Weighted =>
        \A i \in 1..normalized_df.n :
            LET P  == PresentOn(normalized_df, i)
                W  == SumOver(P, i, "w", config)
                VW == SumOver(P, i, "vw", config)
            IN  /\ RLt(Zero, W) => RMul(fear_index_raw[i], W) = VW
                /\ ( /\ config.default_weights = SixFourWeights
                     /\ Range(normalized_df.columns) = {"usdtry_shock", "vix_level"}
                     /\ P = {"usdtry_shock"} )
                   => fear_index_raw[i] = normalized_df.col["usdtry_shock"][i]
                /\ ( /\ P = Range(normalized_df.columns)
                     /\ W = Int2R(1) )
                   => fear_index_raw[i] = VW

\* C2 witness: weights 0.6/0.4, both features normalized, a date with only the
\* first one present, and another date with both present at different values.
C2_Witness ==
    /\ Weighted
    /\ config.default_weights = SixFourWeights
    /\ Range(normalized_df.columns) = {"usdtry_shock", "vix_level"}
    /\ \E i \in 1..normalized_df.n :
          /\ PresentOn(normalized_df, i) = {"usdtry_shock"}
          /\ fear_index_raw[i] = normalized_df.col["usdtry_shock"][i]
    /\ \E i \in 1..normalized_df.n :
          /\ PresentOn(normalized_df, i) = {"usdtry_shock", "vix_level"}
          /\ normalized_df.col["usdtry_shock"][i] # normalized_df.col["vix_level"][i]

\* C3 (as claimed): a column with fewer than MinValid valid observations has
\* no column in the normalized matrix.
C3_FewValidExcluded ==
    Normalized =>
        \A c \in Range(feature_df.columns) :
            ValidCount(feature_df.col[c]) < MinValid
                => c \notin Range(normalized_df.columns)

\* Zero variance as Series.std() reports it: two or more valid observations,
\* all equal.
ZeroVariance(series) ==
    /\ ValidCount(series) >= 2
    /\ \A i, j \in DOMAIN series :
          notna(series[i]) /\ notna(series[j]) => series[i] = series[j]

Degenerate(series) == ZeroVariance(series) \/ ValidCount(series) = 0

\* C4: a column with zero variance or entirely missing has no column in the
\* normalized matrix, and every other column has one, in the matrix's order,
\* with a value series over all dates.
C4_DegenerateExcluded ==
    Normalized =>
        /\ normalized_df.columns =
              SelectSeq(feature_df.columns, LAMBDA c : ~Degenerate(feature_df.col[c]))
        /\ \A c \in Range(normalized_df.columns) :
              Len(normalized_df.col[c]) = feature_df.n

\* C4 witness: a zero-variance column dropped beside a column that is kept
\* and scaled from its percentiles.
C4_Witness ==
    /\ Normalized
    /\ \E c \in Range(feature_df.columns) :
          ZeroVariance(feature_df.col[c]) /\ c \notin Range(normalized_df.columns)
    /\ \E c \in Range(normalized_df.columns) :
          \E i \in 1..normalized_df.n : normalized_df.col[c][i] \notin {NaN, Fifty}

(***************************************************************************)
(* core/data_loader.py                                                     *)
(***************************************************************************)
\* Resolution of the model's clock.
TicksPerDay == 2
\* Last clock value and number of load_data runs.
MaxTime == 2
MaxRuns == 2
\* Largest cache_days_valid tried (the default is 1, src/config.py line 102).
MaxValidDays == 1

\* A table as acquired: the source, the provider and the symbol it was asked
\* of, the end of the requested date range (0 for a manual file, which ignores
\* the range) and the revision of the provider's data, which is new on every
\* run; rev 0 marks the empty table pd.DataFrame().
EmptyTable == [src |-> "", provider |-> "", symbol |-> "", end_date |-> 0, rev |-> 0]
IsEmptyTable(t) == t.rev = 0

NoEntry == [table |-> EmptyTable, mtime |-> -1]

TRENDS == "GoogleTrends"

\* A bundle or the cache with key k set to v.
Put(f, k, v) == [x \in DOMAIN f \cup {k} |-> IF x = k THEN v ELSE f[x]]
EmptyBundle == [x \in {} |-> EmptyTable]

\* DataConfig.__post_init__ (src/config.py lines 112-115): end_date is today.
EndDate(t) == t \div TicksPerDay

\* A variant of the freshness test that also asks for an entry acquired for
\* the date range of this run.
is_cache_valid_same_range(c, name, t, cfg) ==
    /\ c[name].mtime >= 0
    /\ cfg.use_cache
    /\ (t - c[name].mtime) \div TicksPerDay < cfg.cache_days_valid
    /\ c[name].table.end_date = EndDate(t)

\* A variant of the freshness test that serves an entry as old as the window.
is_cache_valid_inclusive(c, name, t, cfg) ==
    /\ c[name].mtime >= 0
    /\ cfg.use_cache
    /\ (t - c[name].mtime) \div TicksPerDay <= cfg.cache_days_valid

\* A variant of the freshness test with the comparison reversed.
is_cache_valid_reversed(c, name, t, cfg) ==
    /\ c[name].mtime >= 0
    /\ cfg.use_cache
    /\ (t - c[name].mtime) \div TicksPerDay > cfg.cache_days_valid

\* _is_cache_valid (lines 18-25): the entry exists, caching is on, and the
\* file's age in whole days is below cache_days_valid.
is_cache_valid(c, name, t, cfg) ==
    /\ c[name].mtime >= 0
    /\ cfg.use_cache
    /\ (t - c[name].mtime) \div TicksPerDay < cfg.cache_days_valid

KnownProviders == {"yfinance", "alphavantage", "ccxt", "manual"}

\* The adapters (lines 28-189): each catches its own failures and returns the
\* empty table for them; out is what the provider does on this call.
Adapter(sc, t, out) ==
    IF out.fetch = "empty" THEN EmptyTable
    ELSE [src |-> sc.name,
          provider |-> sc.provider,
          symbol |-> sc.symbol,
          end_date |-> IF sc.provider = "manual" THEN 0 ELSE EndDate(t),
          rev |-> out.rev]

\* A variant that caches whatever the provider returned.
ShouldCacheAlways(df, cfg) == cfg.use_cache

\* Lines 217 and 256-258: cache a table that is not empty, when caching is on.
ShouldCache(df, cfg) == ~IsEmptyTable(df) /\ cfg.use_cache

\* A variant that keeps an empty table in the bundle.
KeepAlways(df) == TRUE

\* Lines 242 and 256: only a non-empty table enters the bundle.
KeepInBundle(df) == ~IsEmptyTable(df)

\* _load_source (lines 192-221) for source sc under the provider behaviour
\* out: the table returned, the cache afterwards, whether the adapter was
\* called, and whether an exception left the function (pd.read_parquet and
\* df.to_parquet are not guarded).
load_source(sc, c, t, cfg, out) ==
    IF is_cache_valid(c, sc.name, t, cfg)
    THEN [df |-> c[sc.name].table, cache |-> c, called |-> FALSE, raised |-> out.io_error]
    ELSE IF sc.provider \notin KnownProviders
    THEN [df |-> EmptyTable, cache |-> c, called |-> FALSE, raised |-> FALSE]
    ELSE LET df == Adapter(sc, t, out)
         IN  IF ShouldCache(df, cfg)
             THEN IF out.io_error
                  THEN [df |-> df, cache |-> c, called |-> TRUE, raised |-> TRUE]
                  ELSE [df |-> df,
                        cache |-> [c EXCEPT ![sc.name] = [table |-> df, mtime |-> t]],
                        called |-> TRUE, raised |-> FALSE]
             ELSE [df |-> df, cache |-> c, called |-> TRUE, raised |-> FALSE]

\* Line 237
IsEnabled(sc) == sc.enabled

\* The loop of load_data (lines 236-243) from source k on; st is the run so
\* far: [data, cache, calls, attempted, raised].
RECURSIVE LoadLoop(_, _, _, _, _, _)
LoadLoop(k, st, srcs, t, cfg, env) ==
    IF k > Len(srcs) \/ st.raised THEN st
    ELSE LET sc == srcs[k]
             at == st.attempted \cup {sc.name}
         IN  IF ~IsEnabled(sc)
             THEN LoadLoop(k + 1, [st EXCEPT !.attempted = at], srcs, t, cfg, env)
             ELSE LET r == load_source(sc, st.cache, t, cfg, env[sc.name])
                  IN  LoadLoop(k + 1,
                        [data |-> IF ~r.raised /\ KeepInBundle(r.df)
                                  THEN Put(st.data, sc.name, r.df) ELSE st.data,
                         cache |-> r.cache,
                         calls |-> IF r.called THEN st.calls \cup {sc.name} ELSE st.calls,
                         attempted |-> at,
                         raised |-> r.raised],
                        srcs, t, cfg, env)

\* The search-interest part of load_data (lines 246-260).
LoadTrends(st, keywords, t, cfg, out) ==
    IF st.raised \/ keywords = <<>> THEN st
    ELSE IF is_cache_valid(st.cache, TRENDS, t, cfg)
    THEN IF out.io_error
         THEN [st EXCEPT !.raised = TRUE, !.attempted = @ \cup {TRENDS}]
         ELSE [st EXCEPT !.data = Put(@, TRENDS, st.cache[TRENDS].table),
                         !.attempted = @ \cup {TRENDS}]
    ELSE LET df == Adapter([name |-> TRENDS, provider |-> "pytrends", symbol |-> "keywords"], t, out)
             s1 == [st EXCEPT !.calls = @ \cup {TRENDS}, !.attempted = @ \cup {TRENDS}]
         IN  IF KeepInBundle(df)
             THEN IF ShouldCache(df, cfg)
                  THEN IF out.io_error
                       THEN [s1 EXCEPT !.data = Put(@, TRENDS, df), !.raised = TRUE]
                       ELSE [s1 EXCEPT !.data = Put(@, TRENDS, df),
                                       !.cache = [@ EXCEPT ![TRENDS] =
                                                     [table |-> df, mtime |-> t]]]
                  ELSE [s1 EXCEPT !.data = Put(@, TRENDS, df)]
             ELSE s1

\* load_data (lines 224-264)
load_data(c, srcs, t, cfg, env) ==
    LoadTrends(
        LoadLoop(1, [data |-> EmptyBundle, cache |-> c, calls |-> {},
                     attempted |-> {}, raised |-> FALSE],
                 srcs.sources, t, cfg, env),
        srcs.google_trends_keywords, t, cfg, env[TRENDS])

(***************************************************************************)
(* Runs of load_data against the cache store.                              *)
(***************************************************************************)
Src(name, provider, symbol, enabled) ==
    [name |-> name, provider |-> provider, symbol |-> symbol, enabled |-> enabled]

\* Source catalogs: two market sources and a disabled manual file; a market
\* source, a source tagged with a provider _load_source does not know, and an
\* enabled manual file.
CatalogA ==
    <<Src("XU100", "yfinance", "XU100.IS", TRUE),
      Src("USDTRY", "alphavantage", "TRY", TRUE),
      Src("CDS", "manual", "cds_manual.csv", FALSE)>>
CatalogB ==
    <<Src("XU100", "yfinance", "XU100.IS", TRUE),
      Src("Sentiment", "pytrends", "dolar", TRUE),
      Src("CDS", "manual", "cds_manual.csv", TRUE)>>
Catalogs == {CatalogA, CatalogB}

\* CatalogA with the other entry for USDTRY (src/config.py line 75): the same
\* name, asked of another provider under another symbol.
CatalogC ==
    <<Src("XU100", "yfinance", "XU100.IS", TRUE),
      Src("USDTRY", "yfinance", "TRY=X", TRUE),
      Src("CDS", "manual", "cds_manual.csv", FALSE)>>
KeywordChoices == {<<>>, <<"dolar", "faiz">>}

CacheKeys == {"XU100", "USDTRY", "CDS", "Sentiment", TRENDS}
EmptyCache == [k \in CacheKeys |-> NoEntry]

\* What a provider and the cache file do during one call: whether the adapter
\* obtains data ("empty" after any failure inside the adapter), the revision
\* of that data, and whether the parquet read or write of this source fails.
Outcome(fetch, rev, io_error) == [fetch |-> fetch, rev |-> rev, io_error |-> io_error]
Outcomes(rev) ==
    {Outcome("empty", rev, FALSE), Outcome("data", rev, FALSE), Outcome("data", rev, TRUE)}

KeysOf(srcs) ==
    {srcs.sources[i].name : i \in DOMAIN srcs.sources}
    \cup (IF srcs.google_trends_keywords = <<>> THEN {} ELSE {TRENDS})

\* The sources a run consults: the enabled ones (line 237) and the search
\* interest when keywords are configured (line 246).
Consulted(srcs) ==
    {srcs.sources[i].name : i \in {j \in DOMAIN srcs.sources : srcs.sources[j].enabled}}
    \cup (IF srcs.google_trends_keywords = <<>> THEN {} ELSE {TRENDS})

\* The environments of run number rev: one outcome per consulted source.
Envs(srcs, rev) ==
    {[k \in CacheKeys |-> IF k \in Consulted(srcs) THEN e[k] ELSE Outcome("empty", rev, FALSE)]
        : e \in [Consulted(srcs) -> Outcomes(rev)]}

InitLoader ==
    /\ cache = EmptyCache
    /\ now = 0
    /\ data_config \in [use_cache : BOOLEAN, cache_days_valid : 0..MaxValidDays]
    /\ sources \in [sources : Catalogs, google_trends_keywords : KeywordChoices]
    /\ data = EmptyBundle
    /\ calls = {}
    /\ attempted = {}
    /\ lpc = "idle"
    /\ cache0 = EmptyCache
    /\ prev_data = EmptyBundle
    /\ prev_ok = FALSE
    /\ run_at = 0
    /\ prev_at = 0
    /\ runs = 0
    /\ IdleIndex
    /\ IdleFeatures
    /\ IdlePipeline
    /\ IdleBacktest

\* The bookkeeping of a run that ended with result r.
RunEnds(r) ==
    /\ cache' = r.cache
    /\ calls' = r.calls
    /\ attempted' = r.attempted
    /\ cache0' = cache
    /\ prev_data' = data
    /\ prev_ok' = (lpc = "returned")
    /\ run_at' = now
    /\ prev_at' = run_at
    /\ runs' = runs + 1
    /\ UNCHANGED <<now, data_config, sources>>
    /\ ldFrame

\* A run of load_data that returns its bundle (line 264).
LoadDataReturns ==
    /\ runs < MaxRuns
    /\ \E env \in Envs(sources, runs + 1) :
          LET r == load_data(cache, sources, now, data_config, env)
          IN  /\ ~r.raised
              /\ data' = r.data
              /\ lpc' = "returned"
              /\ RunEnds(r)

\* A run of load_data left by an exception of pd.read_parquet (lines 199, 251)
\* or df.to_parquet (lines 218, 259).
LoadDataRaises ==
    /\ runs < MaxRuns
    /\ \E env \in Envs(sources, runs + 1) :
          LET r == load_data(cache, sources, now, data_config, env)
          IN  /\ r.raised
              /\ data' = EmptyBundle
              /\ lpc' = "raised"
              /\ RunEnds(r)

\* Time passes between runs.
Tick ==
    /\ now < MaxTime
    /\ now' = now + 1
    /\ UNCHANGED <<cache, data_config, sources, data, calls, attempted, lpc,
                   cache0, prev_data, prev_ok, run_at, prev_at, runs>>
    /\ ldFrame

\* Between two runs the entry of USDTRY in the source list is exchanged for
\* the other one of src/config.py lines 75-76.
Reconfigure ==
    /\ lpc = "returned"
    /\ runs < MaxRuns
    /\ sources.sources = CatalogA
    /\ sources' = [sources EXCEPT !.sources = CatalogC]
    /\ UNCHANGED <<cache, now, data_config, data, calls, attempted, lpc,
                   cache0, prev_data, prev_ok, run_at, prev_at, runs>>
    /\ ldFrame

NextLoader == LoadDataReturns \/ LoadDataRaises \/ Tick \/ Reconfigure

SpecLoader == InitLoader /\ [][NextLoader]_vars

(***************************************************************************)
(* Properties of the data loader, checked under SpecLoader.                *)
(***************************************************************************)
SecondRun == lpc = "returned" /\ prev_ok
AgeInDays(entry, t) == (t - entry.mtime) \div TicksPerDay
EnabledNames == {sources.sources[i].name : i \in {j \in DOMAIN sources.sources :
                                                    sources.sources[j].enabled}}
DisabledNames == {sources.sources[i].name : i \in {j \in DOMAIN sources.sources :
                                                     ~sources.sources[j].enabled}}

\* C5 (as claimed): a run that follows a returned run within the validity
\* window, with caching enabled, calls no adapter and returns the bundle of
\* that run.
C5_SecondRunIdentical ==
    ( /\ SecondRun
      /\ data_config.use_cache
      /\ (run_at - prev_at) \div TicksPerDay < data_config.cache_days_valid )
    => calls = {} /\ data = prev_data

\* C5 (amended): in a run that follows a returned run, every source whose
\* cache entry is within the validity window when the run starts (caching
\* enabled) is served without a call of its adapter, and its table is the one
\* the earlier run returned.
C5_FreshEntriesServed ==
    SecondRun =>
        \A s \in KeysOf(sources) :
            ( /\ data_config.use_cache
              /\ cache0[s].mtime >= 0
              /\ AgeInDays(cache0[s], run_at) < data_config.cache_days_valid )
            => /\ s \notin calls
               /\ s \in DOMAIN prev_data
               /\ s \in DOMAIN data
               /\ data[s] = prev_data[s]

\* C5 witness: a second run that serves one source from its fresh entry and
\* calls the adapter of another, which the first run had left without data.
C5_Witness ==
    /\ SecondRun
    /\ \E s \in KeysOf(sources) :
          /\ data_config.use_cache /\ cache0[s].mtime >= 0
          /\ AgeInDays(cache0[s], run_at) < data_config.cache_days_valid
          /\ s \notin calls /\ s \in DOMAIN data /\ data[s] = prev_data[s]
    /\ \E s \in calls : s \notin DOMAIN prev_data /\ s \in DOMAIN data

\* C6 (as claimed): a run of load_data never ends by an exception, and it
\* reaches every source of the catalog.
C6_FailureIsolated ==
    lpc # "idle" =>
        /\ lpc = "returned"
        /\ EnabledNames \subseteq attempted

\* C7: every key of a returned bundle maps to a non-empty table, and no
\* disabled source is a key.
C7_BundleNonEmpty ==
    lpc = "returned" =>
        \A k \in DOMAIN data : ~IsEmptyTable(data[k]) /\ k \notin DisabledNames

\* C7 witness: a returned bundle with the search-interest entry served from
\* the cache, beside a disabled source and an enabled source without data.
C7_Witness ==
    /\ lpc = "returned"
    /\ TRENDS \in DOMAIN data /\ TRENDS \notin calls
    /\ DisabledNames # {}
    /\ \E s \in EnabledNames : s \in calls /\ s \notin DOMAIN data

(***************************************************************************)
(* core/feature_engine.py                                                  *)
(***************************************************************************)
\* What a feature module does when it is loaded and called.
Kinds == {"import_error", "no_compute", "raises", "not_series", "empty", "series"}

None == [is_none |-> TRUE, series |-> <<>>]
Some(series) == [is_none |-> FALSE, series |-> series]

\* A variant that lets a wrong-typed result through as an all-missing column.
execute_feature_unchecked(unit) ==
    CASE unit.kind \in {"import_error", "no_compute", "raises"} -> None
      [] unit.kind = "not_series" -> Some(<<NaN>>)
      [] unit.kind = "empty" -> Some(<<>>)
      [] unit.kind = "series" -> Some(unit.series)

\* _execute_feature (lines 22-41): None for a module that fails to import,
\* has no compute, raises, or returns something that is not a Series.
execute_feature(unit) ==
    CASE unit.kind = "import_error" -> None
      [] unit.kind = "no_compute" -> None
      [] unit.kind = "raises" -> None
      [] unit.kind = "not_series" -> None
      [] unit.kind = "empty" -> Some(<<>>)
      [] unit.kind = "series" -> Some(unit.series)

\* Lines 59-61: one turn of the loop of compute_all_features.
FeatureTurn(fs, unit) ==
    LET result == execute_feature(unit)
    IN  IF ~result.is_none /\ result.series # <<>>
        THEN [names |-> Append(fs.names, unit.name),
              series |-> Put(fs.series, unit.name, result.series)]
        ELSE fs

RECURSIVE MaxLen(_, _)
MaxLen(fs, k) ==
    IF k = 0 THEN 0
    ELSE LET m == MaxLen(fs, k - 1)
             l == Len(fs.series[fs.names[k]])
         IN  IF l > m THEN l ELSE m

\* pd.DataFrame(feature_series) (line 68): the union of the dates, a cell
\* missing where a series has no value.
FrameOf(fs) ==
    LET n == MaxLen(fs, Len(fs.names))
    IN  [n |-> n, columns |-> fs.names,
         col |-> [c \in Range(fs.names) |->
                    [i \in 1..n |-> IF i <= Len(fs.series[c]) THEN fs.series[c][i]
                                    ELSE NaN]]]

\* Lines 63-76: the matrix returned for the collected series.
Assembled(fs) == IF fs.names = <<>> THEN EmptyFrame ELSE FrameOf(fs)

RECURSIVE FeatureLoop(_, _)
FeatureLoop(us, k) ==
    IF k = 0 THEN NoSeries ELSE FeatureTurn(FeatureLoop(us, k - 1), us[k])

\* compute_all_features (lines 44-76)
compute_all_features(us) ==
    IF us = <<>> THEN EmptyFrame ELSE Assembled(FeatureLoop(us, Len(us)))

(***************************************************************************)
(* One call of compute_all_features, one step per module.                  *)
(***************************************************************************)
\* Series a module may return: over all dates or one date short.
UnitShapes ==
    {[pattern |-> "levels", lead |-> 0], [pattern |-> "spike", lead |-> MaxLead],
     [pattern |-> "const", lead |-> NRows]}
UnitSeries == {SubSeq(ColumnOf(sh), 1, m) : sh \in UnitShapes, m \in {NRows - 1, NRows}}

Behaviours ==
    {[kind |-> k, series |-> <<>>] : k \in Kinds \ {"series"}}
    \cup {[kind |-> "series", series |-> x] : x \in UnitSeries}

Unit(name, b) == [name |-> name, kind |-> b.kind, series |-> b.series]

\* The modules found by _discover_features (lines 11-19), in any order.
Discoveries ==
    {<<>>} \cup {<<a>> : a \in FeatureNames} \cup
    {cs \in FeatureNames \X FeatureNames : cs[1] # cs[2]} \cup
    {cs \in FeatureNames \X FeatureNames \X FeatureNames :
        cs[1] # cs[2] /\ cs[1] # cs[3] /\ cs[2] # cs[3]}

UnitLists ==
    UNION {{[i \in DOMAIN d |-> Unit(d[i], b[d[i]])] : b \in [Range(d) -> Behaviours]}
              : d \in Discoveries}

InitFeatures ==
    /\ units \in UnitLists
    /\ fk = 1
    /\ feature_series = NoSeries
    /\ features = EmptyFrame
    /\ fpc = "start"
    /\ IdleIndex
    /\ IdleLoader
    /\ IdlePipeline
    /\ IdleBacktest

\* Lines 52-54: nothing discovered.
NoModules ==
    /\ fpc = "start"
    /\ units = <<>>
    /\ features' = EmptyFrame
    /\ fpc' = "done"
    /\ UNCHANGED <<units, fk, feature_series>>
    /\ feFrame

\* Lines 58-61: the next module is executed.
ExecuteFeature ==
    /\ fpc = "start"
    /\ fk <= Len(units)
    /\ feature_series' = FeatureTurn(feature_series, units[fk])
    /\ fk' = fk + 1
    /\ UNCHANGED <<units, features, fpc>>
    /\ feFrame

\* Lines 63-76: the loop is over.
Assemble ==
    /\ fpc = "start"
    /\ units # <<>>
    /\ fk > Len(units)
    /\ features' = Assembled(feature_series)
    /\ fpc' = "done"
    /\ UNCHANGED <<units, fk, feature_series>>
    /\ feFrame

NextFeatures == NoModules \/ ExecuteFeature \/ Assemble

SpecFeatures == InitFeatures /\ [][NextFeatures]_vars

(***************************************************************************)
(* Properties of the feature engine, checked under SpecFeatures.           *)
(***************************************************************************)
\* The modules, in discovery order, that returned a non-empty series.
GoodUnits == SelectSeq(units, LAMBDA u : u.kind = "series" /\ Len(u.series) > 0)
GoodNames == [i \in DOMAIN GoodUnits |-> GoodUnits[i].name]

\* C10: the columns of the returned matrix are exactly the modules whose
\* compute returned a non-empty series, each with that series' values; the
\* call always returns; and a turn of the loop never removes a collected
\* series.
C10_FeatureIsolation ==
    /\ fpc = "done" =>
          /\ features.columns = GoodNames
          /\ \A k \in DOMAIN GoodUnits :
                \A i \in DOMAIN GoodUnits[k].series :
                    features.col[GoodUnits[k].name][i] = GoodUnits[k].series[i]
    /\ \A k \in 1..(fk - 1) :
          (units[k].kind = "series" /\ Len(units[k].series) > 0)
              => /\ units[k].name \in DOMAIN feature_series.series
                 /\ feature_series.series[units[k].name] = units[k].series

\* C10 witness: a returned matrix with one column, from three modules of which
\* one raised and one returned something that is not a series.
C10_Witness ==
    /\ fpc = "done"
    /\ Len(units) = 3
    /\ Len(features.columns) = 1
    /\ \E i, j \in DOMAIN units : units[i].kind = "raises" /\ units[j].kind = "not_series"
    /\ units[3].kind = "raises"

(***************************************************************************)
(* core/index_calculator.py: calculate_fear_index as one call.             *)
(***************************************************************************)
\* Lines 82-117
calculate_fear_index(df, cfg) ==
    IF empty(df) THEN EmptyFrame
    ELSE LET normalized == normalize_features(df, cfg)
         IN  IF NothingNormalized(normalized) THEN EmptyFrame
             ELSE IndexFrame(FinalClip(
                      apply_ema_smoothing(apply_weights(normalized, cfg.default_weights),
                                          cfg.ema_span), cfg))

(***************************************************************************)
(* core/backtest.py: the rows run_backtest works on and how it ends.       *)
(***************************************************************************)
Min(a, b) == IF a < b THEN a ELSE b

\* Series.pct_change on the close prices (line 24)
pct_change(close, i) ==
    IF i = 1 THEN NaN ELSE RSub(RDiv(close[i], close[i - 1]), Int2R(1))

\* _merge_data (lines 14-35): the inner join on the dates, the returns, the
\* shift by one day, and the rows left by dropna.
merge_data(fear_index_df, xu100_df) ==
    IF ~xu100_df.has_close THEN [raised |-> TRUE, rows |-> {}, next_day_return |-> <<>>]
    ELSE LET k == Min(fear_index_df.n, Len(xu100_df.close))
             close == xu100_df.close
             next == [i \in 1..k |-> IF i < k THEN pct_change(close, i + 1) ELSE NaN]
         IN  [raised |-> FALSE,
              rows |-> {i \in 1..k : /\ notna(fear_index_df.col["fear_index"][i])
                                     /\ notna(close[i])
                                     /\ notna(pct_change(close, i))
                                     /\ notna(next[i])},
              next_day_return |-> next]

\* Line 52: the crash days of the merged table.
\* A variant that also labels a return equal to the threshold.
IsCrashDayInclusive(ret, threshold) == RLe(ret, threshold)

IsCrashDay(ret, threshold) == RLt(ret, threshold)

CrashDays(merged, threshold) ==
    {i \in merged.rows : IsCrashDay(merged.next_day_return[i], threshold)}

\* sklearn's roc_auc_score(labels, scores) for a sample with both classes: the
\* share of (crash, other) pairs ranked in order, a tie counting one half.
roc_auc_score(pos, neg, score) ==
    LET pairs == pos \X neg
        won   == Cardinality({pr \in pairs : RLt(score[pr[2]], score[pr[1]])})
        tied  == Cardinality({pr \in pairs : score[pr[1]] = score[pr[2]]})
    IN  Rat(2 * won + tied, 2 * Cardinality(pairs))

\* Line 54
TooFewCrashDays(crash) == Cardinality(crash) < 2

\* _calculate_roc_auc (lines 48-62): 0.0 below two crash days; roc_auc_score
\* (line 59) raises ValueError when the labels hold one class only.
calculate_roc_auc(merged, fear, threshold) ==
    LET crash == CrashDays(merged, threshold)
    IN  IF TooFewCrashDays(crash)
        THEN [raised |-> FALSE, computed |-> FALSE, value |-> Zero]
        ELSE IF crash = merged.rows \/ crash = {}
        THEN [raised |-> TRUE, computed |-> TRUE, value |-> Zero]
        ELSE [raised |-> FALSE, computed |-> TRUE,
              value |-> roc_auc_score(crash, merged.rows \ crash, fear)]

\* A variant that interpolates beyond the high threshold.
calculate_exposure_unbounded(fear_level, cfg) ==
    IF RLt(fear_level, cfg.low_fear_threshold) THEN Int2R(1)
    ELSE RSub(Int2R(1), RDiv(RSub(fear_level, cfg.low_fear_threshold),
                             RSub(cfg.high_fear_threshold, cfg.low_fear_threshold)))

\* calculate_exposure (lines 76-84)
calculate_exposure(fear_level, cfg) ==
    IF RLt(cfg.high_fear_threshold, fear_level) THEN Zero
    ELSE IF RLt(fear_level, cfg.low_fear_threshold) THEN Int2R(1)
    ELSE RSub(Int2R(1), RDiv(RSub(fear_level, cfg.low_fear_threshold),
                             RSub(cfg.high_fear_threshold, cfg.low_fear_threshold)))

\* Line 86: the exposure column.
ExposureColumn(merged, fear, cfg) ==
    [i \in merged.rows |-> calculate_exposure(fear[i], cfg)]

\* The keys of the metrics record (lines 179-186).
MetricKeys ==
    {"correlation", "roc_auc", "sharpe_xu100", "sharpe_strategy",
     "total_return_xu100", "total_return_strategy"}

EmptyResult == [kind |-> "empty", rows |-> 0, crash_days |-> 0, keys |-> {}, roc_auc |-> Zero]
Raised(n, c) == [kind |-> "raised", rows |-> n, crash_days |-> c, keys |-> {}, roc_auc |-> Zero]

\* A variant that reports zero metrics for an empty merged table.
StarvedResultZeroMetrics ==
    [kind |-> "metrics", rows |-> 0, crash_days |-> 0, keys |-> MetricKeys, roc_auc |-> Zero]

\* Lines 170-172: return {}
StarvedResult == EmptyResult

\* run_backtest (lines 159-194): a KeyError of _merge_data (line 18) and a
\* ValueError of roc_auc_score (line 59) leave the function; {} for an empty
\* merged table (lines 170-172); else the metrics record.
run_backtest(fear_index_df, xu100_df, cfg) ==
    LET merged == merge_data(fear_index_df, xu100_df)
        crash  == CrashDays(merged, cfg.crash_threshold)
        roc    == calculate_roc_auc(merged, fear_index_df.col["fear_index"],
                                    cfg.crash_threshold)
    IN  IF merged.raised THEN Raised(0, 0)
        ELSE IF merged.rows = {} THEN StarvedResult
        ELSE IF roc.raised THEN Raised(Cardinality(merged.rows), Cardinality(crash))
        ELSE [kind |-> "metrics", rows |-> Cardinality(merged.rows),
              crash_days |-> Cardinality(crash), keys |-> MetricKeys,
              roc_auc |-> roc.value]

(***************************************************************************)
(* run_pipeline.py: one run of main, one step per stage.                   *)
(***************************************************************************)
\* The exit status of the interpreter: main returns None at every return
\* (lines 28, 36, 46, 53, 77); an exception that leaves main ends the process
\* with status 1.
ExitOnReturn == 0
ExitOnException == 1

\* Line 26
NoData(d) == IF DOMAIN d = {} THEN TRUE ELSE \A k \in DOMAIN d : IsEmptyTable(d[k])

\* A variant that never stops after the feature stage.
NoFeaturesIgnored(f) == FALSE

\* Line 34
NoFeatures(f) == empty(f)

\* Line 44
NoIndex(f) == empty(f)

\* Line 51
NoReference(d) == IF "XU100" \notin DOMAIN d THEN TRUE ELSE IsEmptyTable(d["XU100"])

\* A variant that saves the index only beside a metrics record.
WritesOutputOnlyWithMetrics(r) == r.kind = "metrics"

\* Lines 57-77: whatever run_backtest returned, the summary is logged and the
\* index is written to output/bifx_fear_index.csv.
WritesOutput(r) == TRUE

\* The content of the reference table handed to the backtest: the close
\* prices, or a table without a Close column.
PricePaths == {"flat", "falling", "one_drop"}
PriceAt(path, i) ==
    CASE path = "flat" -> Int2R(100)
      [] path = "falling" -> Int2R(2 ^ (NRows + 1 - i))
      [] path = "one_drop" -> IF i < SpikeRow THEN Int2R(100) ELSE Int2R(90)
      [] path = "early_drop" -> IF i < 3 THEN Int2R(100) ELSE Int2R(90)
      [] path = "edge" -> IF i < 3 THEN Int2R(50) ELSE IF i < 5 THEN Int2R(49)
                          ELSE IF i = 5 THEN Int2R(48) ELSE Int2R(47)
PriceTables ==
    {[has_close |-> FALSE, close |-> <<>>]} \cup
    {[has_close |-> TRUE, close |-> [i \in 1..m |-> PriceAt(path, i)]]
        : path \in PricePaths, m \in {2, NRows}}

\* The feature modules of a run, in the order found.
PipelineBehaviours ==
    {[kind |-> "raises", series |-> <<>>], [kind |-> "empty", series |-> <<>>],
     [kind |-> "series", series |-> ColumnOf([pattern |-> "levels", lead |-> 0])],
     [kind |-> "series", series |-> ColumnOf([pattern |-> "const", lead |-> MaxLead])]}
PipelineUnits ==
    {<<>>} \cup
    {<<Unit("usdtry_shock", a), Unit("vix_level", b)>> :
        a \in PipelineBehaviours, b \in PipelineBehaviours}

InitPipeline ==
    /\ cache = EmptyCache
    /\ now = 0
    /\ data_config \in [use_cache : BOOLEAN, cache_days_valid : {MaxValidDays}]
    /\ sources \in [sources : Catalogs, google_trends_keywords : KeywordChoices]
    /\ data = EmptyBundle
    /\ calls = {}
    /\ attempted = {}
    /\ lpc = "idle"
    /\ cache0 = EmptyCache
    /\ prev_data = EmptyBundle
    /\ prev_ok = FALSE
    /\ run_at = 0
    /\ prev_at = 0
    /\ runs = 0
    /\ units \in PipelineUnits
    /\ fk = 1
    /\ feature_series = NoSeries
    /\ features = EmptyFrame
    /\ fpc = "start"
    /\ IdleIndex
    /\ IdlePipeline
    /\ IdleBacktest

\* main is left by a return after the check of stage `stage` ("" at line 77).
Returns(stage) ==
    /\ ppc' = "exit"
    /\ halted' = stage
    /\ how' = "return"
    /\ exit_code' = ExitOnReturn

\* main is left by an exception.
Raises ==
    /\ ppc' = "exit"
    /\ halted' = ""
    /\ how' = "exception"
    /\ exit_code' = ExitOnException

\* Lines 24-28: stage 1.
LoadStage ==
    /\ ppc = "start"
    /\ invoked' = invoked \cup {"load"}
    /\ \E env \in Envs(sources, 1) :
          LET r == load_data(cache, sources, now, data_config, env)
          IN  /\ cache' = r.cache
              /\ calls' = r.calls
              /\ attempted' = r.attempted
              /\ runs' = runs + 1
              /\ IF r.raised
                 THEN data' = EmptyBundle /\ lpc' = "raised" /\ Raises
                 ELSE /\ data' = r.data
                      /\ lpc' = "returned"
                      /\ IF NoData(r.data) THEN Returns("load")
                         ELSE /\ ppc' = "loaded"
                              /\ UNCHANGED <<halted, how, exit_code>>
    /\ UNCHANGED <<now, data_config, sources, cache0, prev_data, prev_ok, run_at, prev_at>>
    /\ UNCHANGED <<idxVars, feVars, btVars, metrics, saved>>

\* Lines 32-36: stage 2.
FeatureStage ==
    /\ ppc = "loaded"
    /\ invoked' = invoked \cup {"features"}
    /\ features' = compute_all_features(units)
    /\ fpc' = "done"
    /\ IF NoFeatures(features') THEN Returns("features")
       ELSE ppc' = "featured" /\ UNCHANGED <<halted, how, exit_code>>
    /\ UNCHANGED <<idxVars, ldVars, btVars, units, fk, feature_series, metrics, saved>>

\* Lines 42-46: stage 3.
IndexStage ==
    /\ ppc = "featured"
    /\ invoked' = invoked \cup {"index"}
    /\ feature_df' = features
    /\ fear_index' = calculate_fear_index(features, config)
    /\ IF NoIndex(fear_index')
       THEN ipc' = "failed" /\ Returns("index")
       ELSE ipc' = "done" /\ ppc' = "indexed" /\ UNCHANGED <<halted, how, exit_code>>
    /\ UNCHANGED <<config, normalized_df, fear_index_raw, ldVars, feVars, btVars, metrics, saved>>

\* Lines 51-53: the reference series is not in the bundle.
ReferenceMissing ==
    /\ ppc = "indexed"
    /\ NoReference(data)
    /\ Returns("reference")
    /\ UNCHANGED <<idxVars, ldVars, feVars, btVars, invoked, metrics, saved>>

\* Lines 55-77: stage 4, the summary and the saved index.
BacktestStage ==
    /\ ppc = "indexed"
    /\ ~NoReference(data)
    /\ invoked' = invoked \cup {"backtest"}
    /\ \E xu100 \in PriceTables :
          LET r == run_backtest(fear_index, xu100, DefaultBacktestConfig)
          IN  IF r.kind = "raised"
              THEN Raises /\ UNCHANGED <<metrics, saved>>
              ELSE /\ metrics' = r
                   /\ saved' = WritesOutput(r)
                   /\ Returns("")
    /\ UNCHANGED <<idxVars, ldVars, feVars, btVars>>

NextPipeline ==
    LoadStage \/ FeatureStage \/ IndexStage \/ ReferenceMissing \/ BacktestStage

SpecPipeline == InitPipeline /\ [][NextPipeline]_vars

(***************************************************************************)
(* Properties of the pipeline run, checked under SpecPipeline.             *)
(***************************************************************************)
\* C8: a stage is invoked only on a non-empty result of the stage before it:
\* feature computation only on a bundle with a non-empty table, synthesis only
\* on a non-empty feature matrix, the backtest only on a non-empty index and an
\* available reference series; and a run stopped by one of these checks is left
\* by a return, not by an exception, with no later stage invoked.
C8_StageGating ==
    /\ "features" \in invoked => ~NoData(data)
    /\ "index" \in invoked => ~empty(features)
    /\ "backtest" \in invoked => ~empty(fear_index) /\ ~NoReference(data)
    /\ (ppc = "exit" /\ halted # "") => how = "return"
    /\ halted = "load" => invoked = {"load"}
    /\ halted = "features" => invoked = {"load", "features"}
    /\ halted \in {"index", "reference"} => invoked = {"load", "features", "index"}

\* C8 witness: a run in which no module produced output ended after the
\* feature stage without invoking synthesis.
C8_Witness ==
    /\ ppc = "exit"
    /\ halted = "features"
    /\ empty(features)
    /\ "index" \notin invoked
    /\ how = "return"

\* C9 (as claimed): a run stopped by a fatal stage failure ends with a non-zero
\* exit status, and only a run that completed all four stages ends with zero.
C9_FatalRunNonZero ==
    ppc = "exit" =>
        /\ halted # "" => exit_code # 0
        /\ exit_code = 0 => (halted = "" /\ "backtest" \in invoked)

(***************************************************************************)
(* One call of run_backtest, one step per part.                            *)
(***************************************************************************)
\* Dates of the largest composite index tried.
MaxRows == 6

\* Index levels: below, at, between and above the thresholds tried.
LevelList == <<20, 30, 40, 50, 70, 90>>
IndexSeries ==
    {[i \in 1..n |-> IF i = hole THEN NaN
                     ELSE Int2R(LevelList[((shift + stride * i) % Len(LevelList)) + 1])]
        : n \in {0, 2, MaxRows}, hole \in {0, 3},
          shift \in 0..(Len(LevelList) - 1), stride \in {0, 1, 2}}

\* Closing prices: "edge" falls by exactly 2% on its third date and by more
\* than 2% on its fifth and sixth; "falling" halves every day.
BacktestPaths == {"flat", "falling", "early_drop", "edge"}
ReferenceTables ==
    {[has_close |-> FALSE, close |-> <<>>]} \cup
    {[has_close |-> TRUE, close |-> [i \in 1..m |-> PriceAt(path, i)]]
        : path \in BacktestPaths, m \in {2, MaxRows, MaxRows + 1}}

ThresholdChoices == {<<30, 70>>, <<20, 90>>}
BacktestConfigs ==
    {[crash_threshold |-> crash_threshold,
      high_fear_threshold |-> Int2R(t[2]), low_fear_threshold |-> Int2R(t[1])]
        : t \in ThresholdChoices}

InitBacktest ==
    /\ bt_index \in {IndexFrame(x) : x \in IndexSeries}
    /\ bt_xu100 \in ReferenceTables
    /\ bt_config \in BacktestConfigs
    /\ merged_df = NoMerge
    /\ roc_auc = NoScore
    /\ exposure = <<>>
    /\ bt_result = NoMetrics
    /\ bpc = "start"
    /\ IdleIndex
    /\ IdleLoader
    /\ IdleFeatures
    /\ IdlePipeline

\* Lines 168-172: the merge, and the return of {} for an empty table.
MergeData ==
    /\ bpc = "start"
    /\ merged_df' = merge_data(bt_index, bt_xu100)
    /\ IF merged_df'.raised
       THEN bpc' = "raised" /\ bt_result' = Raised(0, 0)
       ELSE IF merged_df'.rows = {}
       THEN bpc' = "returned" /\ bt_result' = StarvedResult
       ELSE bpc' = "merged" /\ UNCHANGED bt_result
    /\ UNCHANGED <<bt_index, bt_xu100, bt_config, roc_auc, exposure>>
    /\ btFrame

\* Lines 175-176: the correlation and the classification metric.
Score ==
    /\ bpc = "merged"
    /\ roc_auc' = calculate_roc_auc(merged_df, bt_index.col["fear_index"],
                                    bt_config.crash_threshold)
    /\ IF roc_auc'.raised
       THEN /\ bpc' = "raised"
            /\ bt_result' = Raised(Cardinality(merged_df.rows),
                                   Cardinality(CrashDays(merged_df, bt_config.crash_threshold)))
       ELSE bpc' = "scored" /\ UNCHANGED bt_result
    /\ UNCHANGED <<bt_index, bt_xu100, bt_config, merged_df, exposure>>
    /\ btFrame

\* Lines 177-194: the overlay strategy and the metrics record.
Overlay ==
    /\ bpc = "scored"
    /\ exposure' = ExposureColumn(merged_df, bt_index.col["fear_index"], bt_config)
    /\ bt_result' = [kind |-> "metrics", rows |-> Cardinality(merged_df.rows),
                     crash_days |-> Cardinality(CrashDays(merged_df, bt_config.crash_threshold)),
                     keys |-> MetricKeys, roc_auc |-> roc_auc.value]
    /\ bpc' = "returned"
    /\ UNCHANGED <<bt_index, bt_xu100, bt_config, merged_df, roc_auc>>
    /\ btFrame

NextBacktest == MergeData \/ Score \/ Overlay

SpecBacktest == InitBacktest /\ [][NextBacktest]_vars

(***************************************************************************)
(* Properties of the backtest, checked under SpecBacktest.                 *)
(***************************************************************************)
Low == bt_config.low_fear_threshold
High == bt_config.high_fear_threshold
Level(i) == bt_index.col["fear_index"][i]

\* C11: at or below the low threshold the exposure is 1, at or above the high
\* threshold it is 0, in between it is 1 - (level - low)/(high - low), at the
\* midpoint 1/2; it lies in [0, 1] and does not increase with the level.
C11_ExposureRule ==
    (bpc = "returned" /\ bt_result.kind = "metrics") =>
        /\ DOMAIN exposure = merged_df.rows
        /\ \A i \in merged_df.rows :
              /\ RLe(Level(i), Low) => exposure[i] = Int2R(1)
              /\ RLe(High, Level(i)) => exposure[i] = Zero
              /\ (RLt(Low, Level(i)) /\ RLt(Level(i), High)) =>
                    RMul(RSub(Int2R(1), exposure[i]), RSub(High, Low)) = RSub(Level(i), Low)
              /\ RAdd(Level(i), Level(i)) = RAdd(Low, High) => exposure[i] = Rat(1, 2)
              /\ RLe(Zero, exposure[i]) /\ RLe(exposure[i], Int2R(1))
        /\ \A i, j \in merged_df.rows :
              RLe(Level(i), Level(j)) => RLe(exposure[j], exposure[i])

\* C11 witness: one sample with a level at the low threshold, one at the high
\* threshold, and one strictly between them with an exposure strictly
\* between 0 and 1.
C11_Witness ==
    /\ bpc = "returned" /\ bt_result.kind = "metrics"
    /\ \E i, j, k \in merged_df.rows :
          /\ Level(i) = Low /\ exposure[i] = Int2R(1)
          /\ Level(j) = High /\ exposure[j] = Zero
          /\ RLt(Zero, exposure[k]) /\ RLt(exposure[k], Int2R(1))

\* The days whose next-day return is strictly below the crash threshold.
StrictlyBelow ==
    {i \in merged_df.rows :
        RLt(merged_df.next_day_return[i], bt_config.crash_threshold)}

\* C12: the crash days are the days whose next-day return is strictly below
\* the threshold; with fewer than 2 of them the metric is 0.0 and no ranking
\* score is computed; otherwise the metric is the ranking score of the index
\* levels against those labels.
C12_CrashLabelling ==
    (bpc = "scored" \/ (bpc = "returned" /\ bt_result.kind = "metrics")) =>
        /\ Cardinality(StrictlyBelow) < 2 =>
              roc_auc = [raised |-> FALSE, computed |-> FALSE, value |-> Zero]
        /\ Cardinality(StrictlyBelow) >= 2 =>
              /\ roc_auc.computed
              /\ roc_auc.value = roc_auc_score(StrictlyBelow, merged_df.rows \ StrictlyBelow,
                                               bt_index.col["fear_index"])
        /\ bpc = "returned" =>
              /\ bt_result.crash_days = Cardinality(StrictlyBelow)
              /\ bt_result.roc_auc = roc_auc.value

\* C12 witness: a sample with exactly one crash day, for which 0.0 was
\* returned without a ranking score.
C12_Witness ==
    /\ bpc = "returned" /\ bt_result.kind = "metrics"
    /\ Cardinality(StrictlyBelow) = 1
    /\ Cardinality(merged_df.rows) > 1
    /\ ~roc_auc.computed
    /\ bt_result.roc_auc = Zero

\* C13: when the merged table (inner join, then dropna) is empty, run_backtest
\* returns the empty result: no metric is computed and none is returned.
C13_EmptyMergeEmptyResult ==
    (bpc # "start" /\ ~merged_df.raised /\ merged_df.rows = {}) =>
        /\ bpc = "returned"
        /\ bt_result.kind = "empty"
        /\ bt_result.keys = {}
        /\ roc_auc = NoScore
        /\ exposure = <<>>
        /\ bt_result = run_backtest(bt_index, bt_xu100, bt_config)

\* C13 witness: an index with values and a reference table with closing
\* prices whose merged table is empty, answered by the empty result.
C13_Witness ==
    /\ bpc = "returned"
    /\ bt_result.kind = "empty"
    /\ bt_index.n > 0
    /\ \E i \in 1..bt_index.n : notna(Level(i))
    /\ bt_xu100.has_close /\ Len(bt_xu100.close) > 0

\* C14 (as claimed): run_backtest is never left by an exception; it ends with
\* the complete metrics record or the empty result.
C14_NeverRaises ==
    /\ bpc # "raised"
    /\ bpc = "returned" =>
          \/ bt_result.kind = "empty"
          \/ bt_result.kind = "metrics" /\ bt_result.keys = MetricKeys

AllStages == {"load", "features", "index", "backtest"}

\* C15 (as claimed): a run whose backtest returned the empty result halts at
\* the backtest stage; it does not end as a completed run with a summary and a
\* saved index.
C15_StarvedBacktestHalts ==
    (ppc = "exit" /\ metrics.kind = "empty") => (halted = "backtest" /\ ~saved)

\* C18: the index is saved in every run in which all four stages returned and
\* in no run that ended at an earlier stage or by an exception; when it is
\* saved, the backtest has returned.
C18_SavedAfterFullRun ==
    /\ ppc # "exit" => ~saved
    /\ ppc = "exit" =>
          (saved <=> (how = "return" /\ halted = "" /\ invoked = AllStages))
    /\ saved => ("backtest" \in invoked /\ metrics.kind \in {"metrics", "empty"})

\* C18 witness: a full run with a metrics record and the index saved.
C18_Witness ==
    /\ ppc = "exit"
    /\ saved
    /\ invoked = AllStages
    /\ metrics.kind = "metrics"
    /\ metrics.rows > 0

(***************************************************************************)
(* Further properties of the index calculator, checked under SpecIndex.    *)
(***************************************************************************)
\* The normalized columns with a positive weight and a value on date i.
WeightedPresentOn(i) ==
    {c \in Range(normalized_df.columns) :
        /\ RLt(Zero, WeightOf(config.default_weights, c))
        /\ notna(normalized_df.col[c][i])}

\* C16: a date on which no feature with a positive weight has a value gets a
\* missing raw composite value; no raw value is an infinity; and the raw
\* series has a value for every date of the matrix.
C16_ZeroWeightMissing ==
    Weighted =>
        /\ Len(fear_index_raw) = normalized_df.n
        /\ \A i \in 1..normalized_df.n :
              /\ WeightedPresentOn(i) = {} => fear_index_raw[i] = NaN
              /\ fear_index_raw[i] \notin {PosInf, NegInf}

\* C16 witness: a matrix with a weighted column that has a value on one date
\* and none on another, the raw value of the latter missing.
C16_Witness ==
    /\ Weighted
    /\ \E i, j \in 1..normalized_df.n :
          /\ WeightedPresentOn(i) = {} /\ fear_index_raw[i] = NaN
          /\ WeightedPresentOn(j) # {} /\ IsFinite(fear_index_raw[j])

\* C17: calculate_fear_index ends, and its result is empty exactly when the
\* feature matrix is empty or every column of it is excluded by normalization.
C17_EmptyResultCases ==
    /\ ipc = "failed" => empty(fear_index)
    /\ ipc \in {"done", "failed"} =>
          ( empty(fear_index) <=>
              \/ empty(feature_df)
              \/ \A c \in Range(feature_df.columns) : Degenerate(feature_df.col[c]) )
    /\ ipc = "done" => (fear_index.n = feature_df.n /\ fear_index.n > 0)

\* C17 witness: a matrix of two columns, both excluded by normalization,
\* answered by the empty result.
C17_Witness ==
    /\ ipc = "failed"
    /\ Len(feature_df.columns) = 2
    /\ feature_df.n > 0
    /\ empty(fear_index)

(***************************************************************************)
(* Further properties of the data loader, checked under SpecLoader.        *)
(***************************************************************************)
\* The sources for which the run obtained a non-empty table from the provider.
Fetched == {s \in calls : s \in DOMAIN data}

\* C19: after a returned run with caching enabled, the entry of every source
\* whose fetch returned a non-empty table holds that table and the time of the
\* run, and every other entry is as before the run; with caching disabled no
\* entry changes; and in a run left by an exception an entry changes only for
\* a source whose adapter was called with caching enabled.
C19_CacheWrites ==
    /\ lpc = "returned" =>
          \A s \in CacheKeys :
              IF s \in Fetched /\ data_config.use_cache
              THEN cache[s] = [table |-> data[s], mtime |-> run_at]
              ELSE cache[s] = cache0[s]
    /\ lpc = "raised" =>
          \A s \in CacheKeys :
              cache[s] # cache0[s] =>
                  /\ s \in calls /\ data_config.use_cache
                  /\ cache[s].mtime = run_at /\ ~IsEmptyTable(cache[s].table)

\* C19 witness: a second run that overwrites the entry of one source and
\* leaves alone the entry of a source served from the cache or fetched empty.
C19_Witness ==
    /\ SecondRun
    /\ \E s \in Fetched :
          /\ cache0[s].mtime >= 0
          /\ cache[s] # cache0[s]
          /\ cache[s] = [table |-> data[s], mtime |-> run_at]
    /\ \E s \in calls : s \notin DOMAIN data /\ cache0[s].mtime >= 0 /\ cache[s] = cache0[s]

\* The entry of s as the run found it is fresh.
FreshAtStart(s) ==
    /\ cache0[s].mtime >= 0
    /\ data_config.use_cache
    /\ AgeInDays(cache0[s], run_at) < data_config.cache_days_valid

EnabledSources == {sources.sources[i] : i \in {j \in DOMAIN sources.sources :
                                                  sources.sources[j].enabled}}

\* C23: the cache is keyed by the source name alone. In a returned run every
\* enabled source whose entry, looked up by name, is fresh when the run starts
\* receives the table of that entry without a call of its adapter, whatever
\* date range, provider and symbol the run asks for; the table is the one
\* acquired at the time the entry was written, so for the range that ended on
\* the day of that earlier run (a manual file has no range).
C23_KeyedByNameAlone ==
    lpc = "returned" =>
        \A sc \in EnabledSources :
            FreshAtStart(sc.name) =>
                /\ sc.name \notin calls
                /\ sc.name \in DOMAIN data
                /\ data[sc.name] = cache0[sc.name].table
                /\ data[sc.name].src = sc.name
                /\ data[sc.name].provider # "manual" =>
                       data[sc.name].end_date = EndDate(cache0[sc.name].mtime)

\* C23 witness: a run on a later day, after USDTRY moved to another provider
\* and symbol, that receives the table the earlier run acquired.
C23_Witness ==
    /\ lpc = "returned"
    /\ \E sc \in EnabledSources :
          /\ FreshAtStart(sc.name)
          /\ sc.name \in DOMAIN data
          /\ data[sc.name].end_date # EndDate(run_at)
          /\ data[sc.name].provider # sc.provider
          /\ data[sc.name].symbol # sc.symbol

\* The matrix df with its columns in the order p.
Reordered(df, p) ==
    [n |-> df.n, columns |-> [i \in DOMAIN df.columns |-> df.columns[p[i]]], col |-> df.col]

C22_NormalizedInRange ==
    Normalized =>
        \A c \in Range(normalized_df.columns) :
            \A i \in 1..normalized_df.n :
                /\ notna(normalized_df.col[c][i]) => InRange(normalized_df.col[c][i], config)
                /\ IsNaN(feature_df.col[c][i]) => IsNaN(normalized_df.col[c][i])

====
